---- MODULE Spec2Model ----
(***************************************************************************)
(* The license handlers of pkg/api/licenseinfo_handler.go                  *)
(* (ListLicenses, SearchLicenses, CreateLicense, GetLicense,               *)
(* UpdateLicense, DeleteLicense) over the license store.                   *)
(*                                                                         *)
(* Spec        : the handlers run one after the other, every action is   *)
(*               one whole handler invocation; the payloads vary the      *)
(*               status and the required fields.                          *)
(* SpecWindow  : the same handlers, the payloads vary end and maxEnd.     *)
(* SpecDevices : the same handlers, the payloads vary the device counters.*)
(* SpecConc    : UpdateLicense and DeleteLicense are split at their two   *)
(*               store calls (Get, then Update/Delete) and two requests   *)
(*               interleave.                                              *)
(*                                                                         *)
(* Dates are whole days (integers); a nil *time.Time is Nil.  The store    *)
(* (package stor) is a function from the stored license ids to records.    *)
(***************************************************************************)
EXTENDS Integers, Sequences, FiniteSets

VARIABLES
    store,      \* the license table: [stored ids -> LicenseInfo]
    deleted,    \* ids removed by a successful DeleteLicense and not created since
    inflight,   \* per request slot: an UpdateLicense/DeleteLicense between its store calls
    last        \* the request handled last and the responses it rendered

vars == <<store, deleted, inflight, last>>

---------------------------------------------------------------------------
\* Bounds of the model

\* payload dates range over 1..MaxDay
MaxDay == 2
\* payload deviceMax ranges over 0..MaxDeviceMax
MaxDeviceMax == 1
\* payload deviceCount ranges over 0..MaxDeviceCount
MaxDeviceCount == 2
\* the configured Config.Status.RenewMaxDays
RenewMaxDays == 1
\* longest `count` query string
MaxCountLen == 3

---------------------------------------------------------------------------
\* Values

\* a nil *time.Time
Nil == -1

STATUS_READY == "ready"

Statuses == {"ready", "active", "expired", "returned", "revoked", "cancelled"}

TerminalStatuses == {"returned", "revoked", "cancelled"}

\* license identifiers a request can name; NoID is the empty URL parameter
LicenseIDs == {"L1", "L2"}

NoID == ""

\* creation timestamps the store hands out; ZeroTime is the zero time.Time
CreationTimes == {"t1", "t2"}

ZeroTime == "t0"

Days == 1..MaxDay

OptDays == {Nil} \cup Days

\* a payload with every optional field left out
BaseLicense(id) ==
    [id |-> id, createdAt |-> ZeroTime, user |-> "u1", pub |-> "p1",
     status |-> STATUS_READY, end |-> Nil, maxEnd |-> Nil,
     deviceMax |-> 0, deviceCount |-> 0]

\* the zero LicenseInfo
NoLicense == BaseLicense(NoID)

\* request payloads that vary the status, and one whose user is missing
StatusPayloads ==
    { [BaseLicense(id) EXCEPT !.status = s] : id \in LicenseIDs, s \in Statuses }
    \cup { [BaseLicense(id) EXCEPT !.user = ""] : id \in LicenseIDs }

\* request payloads for one license that vary the validity window
WindowPayloads ==
    { [BaseLicense("L1") EXCEPT !.end = e, !.maxEnd = m] :
          e \in OptDays, m \in OptDays }

\* request payloads for one license that vary the device counters
DevicePayloads ==
    { [BaseLicense("L1") EXCEPT !.deviceMax = dm, !.deviceCount = dc] :
          dm \in 0..MaxDeviceMax, dc \in 0..MaxDeviceCount }

\* the payloads of the interleaved requests: two updates of one license
ConcPayloads ==
    { [BaseLicense("L1") EXCEPT !.status = s] : s \in {"active", "revoked"} }

---------------------------------------------------------------------------
\* The store (package stor, not part of the handler files)

Found(st, id) == id \in DOMAIN st

\* LicenseInfo.Validate: the required references are present
Validate(l) == l.id # NoID /\ l.user # "" /\ l.pub # ""

\* Store.License().Get
StoreGet(st, id) == st[id]

Put(st, l) == [i \in DOMAIN st \cup {l.id} |-> IF i = l.id THEN l ELSE st[i]]

\* Store.License().Create: a new row, stamped with its creation time
StoreCreate(st, l, t) == Put(st, [l EXCEPT !.createdAt = t])

\* Store.License().Update: saves the row under the record's id
StoreUpdate(st, l) == Put(st, l)

\* Store.License().Delete: removes the row with the record's id
StoreDelete(st, l) == [i \in DOMAIN st \ {l.id} |-> st[i]]

ListAll(st) == DOMAIN st

FindByUser(st, u) == {i \in DOMAIN st : st[i].user = u}

FindByPublication(st, p) == {i \in DOMAIN st : st[i].pub = p}

FindByStatus(st, s) == {i \in DOMAIN st : st[i].status = s}

FindByDeviceCount(st, min, max) ==
    {i \in DOMAIN st : st[i].deviceCount >= min /\ st[i].deviceCount <= max}

---------------------------------------------------------------------------
\* What a handler invocation does: the store it leaves, the store calls it made
\* and the responses it rendered, in order (trace), and the listed licenses

StoreCalls ==
    {"Get", "Create", "Update", "Delete", "ListAll", "FindByUser",
     "FindByPublication", "FindByStatus", "FindByDeviceCount"}

ErrorRenders == {"ErrInvalidRequest", "ErrNotFound", "ErrRender"}

Renders == ErrorRenders \cup {"Created", "OK", "List"}

Outcome(st, trace) == [store |-> st, trace |-> trace, list |-> {}]

IsRender(e) == e \in Renders

\* the responses rendered by a handler invocation
RendersOf(trace) == SelectSeq(trace, IsRender)

\* some store call follows an error response
CallAfterError(trace) ==
    \E i, j \in 1..Len(trace) :
        i < j /\ trace[i] \in ErrorRenders /\ trace[j] \in StoreCalls

---------------------------------------------------------------------------
\* ListLicenses

ListLicenses(st, fails) ==
    IF fails
    THEN Outcome(st, <<"ListAll", "ErrRender">>)
    ELSE [Outcome(st, <<"ListAll", "List">>) EXCEPT !.list = ListAll(st)]

---------------------------------------------------------------------------
\* SearchLicenses.  Query strings are sequences of one-character strings.

Digits == {"0", "1", "2", "3", "4", "5", "6", "7", "8", "9"}

DigitVal(c) ==
    CASE c = "0" -> 0 [] c = "1" -> 1 [] c = "2" -> 2 [] c = "3" -> 3
      [] c = "4" -> 4 [] c = "5" -> 5 [] c = "6" -> 6 [] c = "7" -> 7
      [] c = "8" -> 8 [] c = "9" -> 9

RECURSIVE DecimalValue(_)
DecimalValue(s) ==
    IF s = <<>> THEN 0
    ELSE DecimalValue(SubSeq(s, 1, Len(s) - 1)) * 10 + DigitVal(s[Len(s)])

\* strconv.Atoi on an unsigned string: the value, or an error and 0
Atoi(s) ==
    IF s # <<>> /\ \A i \in 1..Len(s) : s[i] \in Digits
    THEN [err |-> FALSE, val |-> DecimalValue(s)]
    ELSE [err |-> TRUE, val |-> 0]

\* strings.Split(s, sep)
RECURSIVE Split(_, _)
Split(s, sep) ==
    IF s = <<>> THEN << <<>> >>
    ELSE LET rest == Split(Tail(s), sep)
         IN  IF Head(s) = sep
             THEN << <<>> >> \o rest
             ELSE << <<Head(s)>> \o Head(rest) >> \o Tail(rest)

\* the tail of SearchLicenses: the error of the store call, or the list
SearchResult(st, call, found, fails) ==
    IF fails
    THEN Outcome(st, <<call, "ErrRender">>)
    ELSE [Outcome(st, <<call, "List">>) EXCEPT !.list = found]

\* the responses rendered while parsing the two parts of `count`
CountParseRenders(min, max) ==
    (IF min.err THEN <<"ErrInvalidRequest">> ELSE <<>>)
        \o (IF max.err THEN <<"ErrInvalidRequest">> ELSE <<>>)

\* search by count: count is a "min:max" tuple
SearchByCount(st, count, fails) ==
    LET parts == Split(count, ":")
    IN  IF Len(parts) # 2
        THEN Outcome(st, <<"ErrInvalidRequest">>)
        ELSE LET min == Atoi(parts[1])
                 max == Atoi(parts[2])
                 res == SearchResult(st, "FindByDeviceCount",
                            FindByDeviceCount(st, min.val, max.val), fails)
             IN  [res EXCEPT !.trace = CountParseRenders(min, max) \o res.trace]

SearchLicenses(st, q, fails) ==
    IF q.user # ""
    THEN SearchResult(st, "FindByUser", FindByUser(st, q.user), fails)
    ELSE IF q.pub # ""
    THEN SearchResult(st, "FindByPublication", FindByPublication(st, q.pub), fails)
    ELSE IF q.status # ""
    THEN SearchResult(st, "FindByStatus", FindByStatus(st, q.status), fails)
    ELSE IF q.count # <<>>
    THEN SearchByCount(st, q.count, fails)
    ELSE Outcome(st, <<"ErrNotFound">>)

---------------------------------------------------------------------------
\* CreateLicense

\* ForceStatus without the assignment: the payload's status is kept
ForceStatusKept(license) == license

\* force the status
ForceStatus(license) ==
    IF license.status # STATUS_READY
    THEN [license EXCEPT !.status = STATUS_READY]
    ELSE license

\* time.Time.AddDate(0, 0, days)
AddDate(t, days) == t + days

\* SetMaxEnd without the test of MaxEnd: a supplied max end date is overwritten
SetMaxEndOverwrites(license) ==
    IF license.end # Nil
    THEN [license EXCEPT !.maxEnd = AddDate(license.end, RenewMaxDays)]
    ELSE license

\* set the max end date if there is an end date and the max end date is not set
SetMaxEnd(license) ==
    IF license.end # Nil /\ license.maxEnd = Nil
    THEN [license EXCEPT !.maxEnd = AddDate(license.end, RenewMaxDays)]
    ELSE license

CreateLicense(st, data, t, fails) ==
    IF ~Validate(data)
    THEN Outcome(st, <<"ErrInvalidRequest">>)
    ELSE LET license == SetMaxEnd(ForceStatus(data))
         IN  IF fails \/ Found(st, license.id)
             THEN Outcome(st, <<"Create", "ErrRender">>)
             ELSE Outcome(StoreCreate(st, license, t), <<"Create", "Created">>)

---------------------------------------------------------------------------
\* GetLicense

GetLicense(st, id) ==
    IF id = NoID
    THEN Outcome(st, <<"ErrInvalidRequest">>)
    ELSE IF ~Found(st, id)
    THEN Outcome(st, <<"Get", "ErrNotFound">>)
    ELSE [Outcome(st, <<"Get", "OK">>) EXCEPT !.list = {id}]

---------------------------------------------------------------------------
\* UpdateLicense

\* SetGormFields without the assignment of ID: the payload's id is kept
SetCreatedAtOnly(license, currentLic) ==
    [license EXCEPT !.createdAt = currentLic.createdAt]

\* set the gorm fields
SetGormFields(license, currentLic) ==
    [license EXCEPT !.id = currentLic.id, !.createdAt = currentLic.createdAt]

\* UpdateLoad without the return after the Bind error: the invalid payload
\* is answered ErrInvalidRequest and the handler goes on to the store
UpdateLoadBindNoReturn(st, id, data) ==
    LET early == IF ~Validate(data) THEN <<"ErrInvalidRequest">> ELSE <<>>
    IN  IF id = NoID
        THEN [trace |-> early \o <<"ErrNotFound">>, goon |-> FALSE]
        ELSE IF ~Found(st, id)
        THEN [trace |-> early \o <<"Get", "ErrNotFound">>, goon |-> FALSE]
        ELSE [trace |-> early \o <<"Get">>, goon |-> TRUE]

\* UpdateLicense up to and including its Store.Get: the trace so far, and
\* whether the handler goes on to the update
UpdateLoad(st, id, data) ==
    IF ~Validate(data)
    THEN [trace |-> <<"ErrInvalidRequest">>, goon |-> FALSE]
    ELSE IF id = NoID
    THEN [trace |-> <<"ErrNotFound">>, goon |-> FALSE]
    ELSE IF ~Found(st, id)
    THEN [trace |-> <<"Get", "ErrNotFound">>, goon |-> FALSE]
    ELSE [trace |-> <<"Get">>, goon |-> TRUE]

\* UpdateLicense from its db update on
UpdateSave(st, license, fails) ==
    IF fails
    THEN Outcome(st, <<"Update", "ErrRender">>)
    ELSE [Outcome(StoreUpdate(st, license), <<"Update", "OK">>)
              EXCEPT !.list = {license.id}]

\* UpdateLicense without the test of the error of Store.Get: a payload for a
\* license that is not stored is saved under the requested id
UpdateLicenseIgnoresGetError(st, id, data, fails) ==
    IF ~Validate(data)
    THEN Outcome(st, <<"ErrInvalidRequest">>)
    ELSE IF id = NoID
    THEN Outcome(st, <<"ErrNotFound">>)
    ELSE LET currentLic == IF Found(st, id) THEN StoreGet(st, id)
                           ELSE [NoLicense EXCEPT !.id = id]
             res == UpdateSave(st, SetGormFields(data, currentLic), fails)
         IN  [res EXCEPT !.trace = <<"Get">> \o res.trace]

UpdateLicense(st, id, data, fails) ==
    LET load == UpdateLoad(st, id, data)
    IN  IF ~load.goon
        THEN Outcome(st, load.trace)
        ELSE LET res == UpdateSave(st, SetGormFields(data, StoreGet(st, id)), fails)
             IN  [res EXCEPT !.trace = load.trace \o res.trace]

---------------------------------------------------------------------------
\* DeleteLicense

\* DeleteLicense up to and including its Store.Get
DeleteLoad(st, id) ==
    IF id = NoID
    THEN [trace |-> <<"ErrNotFound">>, goon |-> FALSE]
    ELSE IF ~Found(st, id)
    THEN [trace |-> <<"Get", "ErrNotFound">>, goon |-> FALSE]
    ELSE [trace |-> <<"Get">>, goon |-> TRUE]

\* DeleteLicense from its db delete on
DeleteRemove(st, license, fails) ==
    IF fails
    THEN Outcome(st, <<"Delete", "ErrInvalidRequest">>)
    ELSE [Outcome(StoreDelete(st, license), <<"Delete", "OK">>)
              EXCEPT !.list = {license.id}]

DeleteLicense(st, id, fails) ==
    LET load == DeleteLoad(st, id)
    IN  IF ~load.goon
        THEN Outcome(st, load.trace)
        ELSE LET res == DeleteRemove(st, StoreGet(st, id), fails)
             IN  [res EXCEPT !.trace = load.trace \o res.trace]

---------------------------------------------------------------------------
\* Requests

\* the `count` query strings: up to MaxCountLen characters
CountChars == {"1", "x", ":"}

CountStrings == UNION { [1..n -> CountChars] : n \in 0..MaxCountLen }

\* the query parameters of a search: every count alone, and every combination
\* of the other three parameters with and without a count
Queries ==
    { [user |-> "", pub |-> "", status |-> "", count |-> c] : c \in CountStrings }
    \cup
    { [user |-> u, pub |-> p, status |-> s, count |-> c] :
          u \in {"", "u1"}, p \in {"", "p1"}, s \in {"", "ready"},
          c \in {<<>>, <<"1", ":", "1">>} }

URLParams == LicenseIDs \cup {NoID}

Slots == {1, 2}

Idle == [pc |-> "idle"]

\* the handler called Store.Get
LookedUp(trace) == \E i \in 1..Len(trace) : trace[i] = "Get"

\* the handler's last response is the success response
Succeeded(trace) ==
    trace # <<>> /\ trace[Len(trace)] \in {"Created", "OK", "List"}

\* the record of a request: its payload is kept when the request succeeds
Reply(op, id, data, out, late, stale) ==
    last' = [op |-> op, id |-> id,
             data |-> IF Succeeded(out.trace) THEN data ELSE NoLicense,
             bindOK |-> op \notin {"CreateLicense", "UpdateLicense"} \/ Validate(data),
             trace |-> out.trace,
             list |-> out.list, late |-> late, stale |-> stale]

Init ==
    /\ store = << >>
    /\ deleted = {}
    /\ inflight = [s \in Slots |-> Idle]
    /\ last = [op |-> "none", id |-> NoID, data |-> NoLicense, bindOK |-> TRUE,
               trace |-> <<>>,
               list |-> {}, late |-> FALSE, stale |-> FALSE]

ListLicensesReq ==
    \E fails \in BOOLEAN :
        /\ Reply("ListLicenses", NoID, NoLicense, ListLicenses(store, fails),
                 FALSE, FALSE)
        /\ UNCHANGED <<store, deleted, inflight>>

SearchLicensesReq ==
    \E q \in Queries, fails \in BOOLEAN :
        /\ Reply("SearchLicenses", NoID, NoLicense,
                 SearchLicenses(store, q, fails), FALSE, FALSE)
        /\ UNCHANGED <<store, deleted, inflight>>

CreateLicenseReq(P) ==
    \E data \in P, t \in CreationTimes, fails \in BOOLEAN :
        LET out == CreateLicense(store, data, t, fails)
        IN  /\ store' = out.store
            /\ deleted' = IF Succeeded(out.trace)
                          THEN deleted \ {data.id} ELSE deleted
            /\ Reply("CreateLicense", data.id, data, out, FALSE, FALSE)
            /\ UNCHANGED inflight

GetLicenseReq ==
    \E id \in URLParams :
        LET out == GetLicense(store, id)
        IN  /\ Reply("GetLicense", id, NoLicense, out,
                     LookedUp(out.trace) /\ id \in deleted, FALSE)
            /\ UNCHANGED <<store, deleted, inflight>>

UpdateLicenseReq(P) ==
    \E id \in URLParams, data \in P, fails \in BOOLEAN :
        LET out == UpdateLicense(store, id, data, fails)
        IN  /\ store' = out.store
            /\ Reply("UpdateLicense", id, data, out,
                     LookedUp(out.trace) /\ id \in deleted, FALSE)
            /\ UNCHANGED <<deleted, inflight>>

DeleteLicenseReq ==
    \E id \in URLParams, fails \in BOOLEAN :
        LET out == DeleteLicense(store, id, fails)
        IN  /\ store' = out.store
            /\ deleted' = IF Succeeded(out.trace)
                          THEN deleted \cup {id} ELSE deleted
            /\ Reply("DeleteLicense", id, NoLicense, out,
                     LookedUp(out.trace) /\ id \in deleted, FALSE)
            /\ UNCHANGED inflight

\* every action is one whole handler invocation; P is the set of payloads
Next(P) ==
    \/ ListLicensesReq
    \/ SearchLicensesReq
    \/ CreateLicenseReq(P)
    \/ GetLicenseReq
    \/ UpdateLicenseReq(P)
    \/ DeleteLicenseReq

Spec == Init /\ [][Next(StatusPayloads)]_vars

SpecWindow == Init /\ [][Next(WindowPayloads)]_vars

SpecDevices == Init /\ [][Next(DevicePayloads)]_vars

---------------------------------------------------------------------------
\* Interleaved requests: UpdateLicense and DeleteLicense in two steps each

\* the record in the store is no longer the one the request loaded
Stale(st, r) == ~Found(st, r.id) \/ st[r.id] # r.currentLic

\* UpdateLicense, lines 135-162: bind, Store.Get, set the gorm fields
BeginUpdate(s, P) ==
    /\ inflight[s].pc = "idle"
    /\ \E id \in URLParams, data \in P :
           LET load == UpdateLoad(store, id, data)
           IN  IF load.goon
               THEN /\ inflight' = [inflight EXCEPT ![s] =
                           [pc |-> "update", id |-> id, data |-> data,
                            license |-> SetGormFields(data, StoreGet(store, id)),
                            currentLic |-> StoreGet(store, id),
                            late |-> id \in deleted]]
                    /\ UNCHANGED <<store, deleted, last>>
               ELSE /\ Reply("UpdateLicense", id, data, Outcome(store, load.trace),
                             LookedUp(load.trace) /\ id \in deleted, FALSE)
                    /\ UNCHANGED <<store, deleted, inflight>>

\* UpdateLicense, lines 180-190: Store.Update and the response
FinishUpdate(s) ==
    /\ inflight[s].pc = "update"
    /\ \E fails \in BOOLEAN :
           LET r == inflight[s]
               res == UpdateSave(store, r.license, fails)
           IN  /\ store' = res.store
               /\ Reply("UpdateLicense", r.id, r.data,
                        [res EXCEPT !.trace = <<"Get">> \o res.trace],
                        r.late, Succeeded(res.trace) /\ Stale(store, r))
               /\ inflight' = [inflight EXCEPT ![s] = Idle]
               /\ UNCHANGED deleted

\* DeleteLicense, lines 194-209: Store.Get
BeginDelete(s) ==
    /\ inflight[s].pc = "idle"
    /\ \E id \in URLParams :
           LET load == DeleteLoad(store, id)
           IN  IF load.goon
               THEN /\ inflight' = [inflight EXCEPT ![s] =
                           [pc |-> "delete", id |-> id, data |-> NoLicense,
                            license |-> StoreGet(store, id),
                            currentLic |-> StoreGet(store, id),
                            late |-> id \in deleted]]
                    /\ UNCHANGED <<store, deleted, last>>
               ELSE /\ Reply("DeleteLicense", id, NoLicense,
                             Outcome(store, load.trace),
                             LookedUp(load.trace) /\ id \in deleted, FALSE)
                    /\ UNCHANGED <<store, deleted, inflight>>

\* DeleteLicense, lines 211-222: Store.Delete and the response
FinishDelete(s) ==
    /\ inflight[s].pc = "delete"
    /\ \E fails \in BOOLEAN :
           LET r == inflight[s]
               res == DeleteRemove(store, r.license, fails)
           IN  /\ store' = res.store
               /\ deleted' = IF Succeeded(res.trace)
                             THEN deleted \cup {r.id} ELSE deleted
               /\ Reply("DeleteLicense", r.id, NoLicense,
                        [res EXCEPT !.trace = <<"Get">> \o res.trace],
                        r.late, Succeeded(res.trace) /\ Stale(store, r))
               /\ inflight' = [inflight EXCEPT ![s] = Idle]

NextConc ==
    \/ CreateLicenseReq(ConcPayloads)
    \/ GetLicenseReq
    \/ \E s \in Slots : BeginUpdate(s, ConcPayloads)
    \/ \E s \in Slots : FinishUpdate(s)
    \/ \E s \in Slots : BeginDelete(s)
    \/ \E s \in Slots : FinishDelete(s)

SpecConc == Init /\ [][NextConc]_vars

---------------------------------------------------------------------------
\* Properties

CreateSucceeded == last.op = "CreateLicense" /\ Succeeded(last.trace)

UpdateSucceeded == last.op = "UpdateLicense" /\ Succeeded(last.trace)

\* C1: every license stored by CreateLicense has status ready, whatever
\* status the payload carried.
C1_CreateStoresReady ==
    CreateSucceeded =>
        /\ Found(store, last.id)
        /\ store[last.id].status = STATUS_READY

\* a license was created from a payload whose status was revoked
C1_Witness ==
    /\ CreateSucceeded
    /\ last.data.status = "revoked"
    /\ Found(store, last.id)

\* C2: CreateLicense stores maxEnd = end + RenewMaxDays when the payload has
\* an end date and no maxEnd, and stores maxEnd (and end) as supplied
\* otherwise; a nil maxEnd without an end date stays nil.
C2_MaxEndDerived ==
    CreateSucceeded =>
        /\ Found(store, last.id)
        /\ store[last.id].end = last.data.end
        /\ store[last.id].maxEnd =
               IF last.data.end # Nil /\ last.data.maxEnd = Nil
               THEN last.data.end + RenewMaxDays
               ELSE last.data.maxEnd

\* a license was created from a payload with an end date and no maxEnd
C2_Witness ==
    /\ CreateSucceeded
    /\ last.data.end # Nil
    /\ last.data.maxEnd = Nil
    /\ Found(store, last.id)
    /\ store[last.id].maxEnd # Nil

\* C3: once a stored license has status returned, revoked or cancelled, no
\* operation changes the status of that license while it stays stored.
C3_TerminalPermanent ==
    [][\A id \in LicenseIDs :
          (Found(store, id) /\ Found(store', id)
              /\ store[id].status \in TerminalStatuses)
          => store'[id].status = store[id].status]_vars

\* C4: for every stored license with a non-nil maxEnd, end <= maxEnd holds
\* in every reachable state and no operation decreases (or clears) maxEnd.
C4_MaxEndCeiling ==
    /\ [](\A id \in DOMAIN store :
             (store[id].maxEnd # Nil /\ store[id].end # Nil)
             => store[id].end <= store[id].maxEnd)
    /\ [][\A id \in LicenseIDs :
             (Found(store, id) /\ Found(store', id) /\ store[id].maxEnd # Nil)
             => store'[id].maxEnd >= store[id].maxEnd]_vars

\* C5: a successful UpdateLicense writes exactly the record addressed by the
\* URL: that record keeps its id and its createdAt, whatever the payload
\* carried, and no other record is written, created or removed.
C5_UpdateKeepsIdentity ==
    [][(last'.op = "UpdateLicense" /\ Succeeded(last'.trace))
       => LET u == last'.id
          IN  /\ Found(store, u)
              /\ Found(store', u)
              /\ store'[u].id = u
              /\ store'[u].createdAt = store[u].createdAt
              /\ DOMAIN store' = DOMAIN store
              /\ \A j \in DOMAIN store \ {u} : store'[j] = store[j]]_vars

\* an update succeeded whose payload carried another id and another createdAt
C5_Witness ==
    /\ UpdateSucceeded
    /\ last.data.id # last.id
    /\ Found(store, last.id)
    /\ last.data.createdAt # store[last.id].createdAt

\* C6: for every stored license with deviceMax > 0, deviceCount <= deviceMax.
C6_DeviceCountBounded ==
    \A id \in DOMAIN store :
        store[id].deviceMax > 0 => store[id].deviceCount <= store[id].deviceMax

\* C7: a request that looks up an id deleted by a successful DeleteLicense,
\* and not created again since, is answered NotFound.
C7_DeletedStaysNotFound ==
    last.late => last.trace = <<"Get", "ErrNotFound">>

\* C8 as stated: when the store has no license for the requested id,
\* GetLicense, UpdateLicense and DeleteLicense answer NotFound and leave the
\* store unchanged.
C8_AbsentAnswersNotFound ==
    [][(/\ last'.op \in {"GetLicense", "UpdateLicense", "DeleteLicense"}
        /\ last'.id # NoID
        /\ ~Found(store, last'.id))
       => (/\ RendersOf(last'.trace) = <<"ErrNotFound">>
           /\ store' = store)]_vars

\* C8 as amended: when the store has no license for the requested id,
\* GetLicense and DeleteLicense answer NotFound, UpdateLicense answers
\* NotFound when its payload passes validation and InvalidRequest, without
\* any store call, when it does not; the store is unchanged in every case.
C8_AbsentLookupAnswersNotFound ==
    [][(/\ last'.op \in {"GetLicense", "UpdateLicense", "DeleteLicense"}
        /\ last'.id # NoID
        /\ ~Found(store, last'.id))
       => (/\ store' = store
           /\ last'.trace = IF last'.bindOK THEN <<"Get", "ErrNotFound">>
                            ELSE <<"ErrInvalidRequest">>)]_vars

\* an update with a valid payload named a license that is not stored
C8_Witness ==
    /\ last.op = "UpdateLicense"
    /\ last.bindOK
    /\ last.id # NoID
    /\ ~Found(store, last.id)
    /\ last.trace = <<"Get", "ErrNotFound">>

\* C9: no request saves or deletes a record on the strength of a load that
\* another request's write has since made stale.
C9_NoStaleWrite == ~last.stale

\* C10: every handler invocation renders exactly one response and makes no
\* store call after an error response.
C10_OneResponse ==
    last.op # "none" =>
        /\ Len(RendersOf(last.trace)) = 1
        /\ ~CallAfterError(last.trace)

\* C11: when the payload fails validation in Bind, CreateLicense and
\* UpdateLicense answer ErrInvalidRequest and nothing else, make no store
\* call (no Get, Create or Update), and leave the stored licenses unchanged.
C11_InvalidPayloadNoStoreCall ==
    [][(last'.op \in {"CreateLicense", "UpdateLicense"} /\ ~last'.bindOK)
       => (/\ last'.trace = <<"ErrInvalidRequest">>
           /\ \A i \in 1..Len(last'.trace) : last'.trace[i] \notin StoreCalls
           /\ store' = store)]_vars

\* an update with an invalid payload named a stored license
C11_Witness ==
    /\ last.op = "UpdateLicense"
    /\ ~last.bindOK
    /\ Found(store, last.id)
    /\ last.trace = <<"ErrInvalidRequest">>

====
